---- MODULE Spec2Model ----
(***************************************************************************)
(* State-machine model of the HUD dashboard component (HudInterface) of    *)
(* src/App.tsx: the search handler, the feed pane's render branches, the   *)
(* news loader, the weather resolver, the media player with its interval,  *)
(* the clock and the battery listeners.  One action per event handler,     *)
(* timer callback or asynchronous continuation; every action is one        *)
(* run-to-completion step of the single-threaded event loop, together with *)
(* the effects React runs for the state it changed.                        *)
(***************************************************************************)
EXTENDS Integers, Sequences, FiniteSets, TLC

VARIABLES
    searchQuery,     \* useState('')       : the text of the search input
    searchResult,    \* useState(null)     : string | null (| undefined)
    groundingUrls,   \* useState([])       : sequence of {title, uri}
    isSearching,     \* useState(false)
    newsHeadlines,   \* useState([])       : sequence of lines
    weather,         \* useState({temp, condition, location})
    inflight,        \* ids of the handleSearch invocations awaiting the engine
    issued,          \* number of handleSearch invocations that sent a request
    latestOutcome,   \* what the engine answered to the latest request, if settled
    newsPending,     \* the startup fetchNews call is awaiting the engine
    hasGeolocation,  \* 'geolocation' capability present in navigator
    wstage,          \* per fetchWeather invocation: where it stands
    mounted,         \* the component is mounted (activated)
    time,            \* useState(new Date()) : clock ticks shown so far
    clockTimers,     \* live intervals created by the clock effect
    isPlaying,       \* useState(false)
    currentTrackIndex, \* useState(0)
    trackProgress,   \* useState(0)
    playTimers,      \* live intervals created by the media effect
    playInterval,    \* the media effect's closure holds an interval id
    battery,         \* useState({ level: 100, charging: true })
    hasBattery,      \* 'getBattery' in navigator
    batteryStage,    \* getBattery(): "none" | "requesting" | "listening"
    batteryListeners, \* listeners registered on the battery handle
    last             \* the handler or continuation that ran last, with its input

vars == <<searchQuery, searchResult, groundingUrls, isSearching, newsHeadlines,
          weather, inflight, issued, latestOutcome, newsPending, hasGeolocation,
          wstage, mounted, time, clockTimers, isPlaying, currentTrackIndex,
          trackProgress, playTimers, playInterval, battery, hasBattery,
          batteryStage, batteryListeners, last>>

searchVars == <<searchQuery, searchResult, groundingUrls, isSearching, inflight,
                issued, latestOutcome>>
newsVars == <<newsHeadlines, newsPending>>
weatherVars == <<weather, hasGeolocation, wstage>>
clockVars == <<time, clockTimers>>
playerVars == <<isPlaying, currentTrackIndex, trackProgress, playTimers, playInterval>>
batteryVars == <<battery, hasBattery, batteryStage, batteryListeners>>
deviceVars == <<mounted, clockVars, playerVars, batteryVars>>
feedVars == <<searchVars, newsVars, weatherVars>>

----------------------------------------------------------------------------
(* Bounds of the model *)

\* handleSearch invocations that reach the engine
MaxRequests == 2
\* grounding chunks in one engine response
MaxChunks == 1
\* characters in the search input
MaxQueryLen == 2
\* characters in an engine text that the weather resolver parses
MaxWeatherLen == 4
\* fetchWeather invocations (startup plus rescans)
MaxAttempts == 2
\* characters in an engine text that the news loader parses
MaxNewsLen == 7
\* clock ticks shown
MaxClock == 2

----------------------------------------------------------------------------
(* JavaScript values *)

\* null and undefined, as values a string-typed slot can hold
Null == "<null>"
Undefined == "<undefined>"

\* JavaScript truthiness of a string | null | undefined value
Truthy(v) == v \notin {Null, Undefined, ""}

\* Strings that are split or trimmed are sequences of one-character strings.
IsSpace(c) == c \in {" ", "\n"}

RECURSIVE TrimStart(_)
TrimStart(s) == IF s # <<>> /\ IsSpace(Head(s)) THEN TrimStart(Tail(s)) ELSE s

RECURSIVE TrimEnd(_)
TrimEnd(s) ==
    IF s # <<>> /\ IsSpace(s[Len(s)]) THEN TrimEnd(SubSeq(s, 1, Len(s) - 1)) ELSE s

\* String.prototype.trim
Trim(s) == TrimEnd(TrimStart(s))

\* all sequences over alphabet of length at most n
RECURSIVE SeqsUpTo(_, _)
SeqsUpTo(alphabet, n) ==
    IF n = 0 THEN {<<>>}
    ELSE LET shorter == SeqsUpTo(alphabet, n - 1)
         IN  shorter \cup {Append(s, c) : s \in shorter, c \in alphabet}

\* String.prototype.split(sep) for a one-character separator: the segments
\* between the separators, in order; a string without separator is one segment
RECURSIVE Split(_, _)
Split(s, sep) ==
    IF \A i \in 1..Len(s) : s[i] # sep THEN <<s>>
    ELSE LET k == CHOOSE i \in 1..Len(s) :
                      s[i] = sep /\ \A j \in 1..(i - 1) : s[j] # sep
         IN  <<SubSeq(s, 1, k - 1)>> \o Split(SubSeq(s, k + 1, Len(s)), sep)

\* Array.prototype.slice(0, n)
Slice0(s, n) == SubSeq(s, 1, IF Len(s) < n THEN Len(s) ELSE n)

\* response.text of an engine response: a string, or undefined
Text(s) == [present |-> TRUE, chars |-> s]
NoText == [present |-> FALSE, chars |-> <<>>]
\* if (text)
TruthyText(t) == t.present /\ t.chars # <<>>

----------------------------------------------------------------------------
(* Search: handleSearch, the HOME button, the search input *)

SEARCH_ERROR == "CONNECTION INTERRUPTED. TARGET NOT FOUND."

Queries == SeqsUpTo({" ", "q"}, MaxQueryLen)
\* the input texts the race between requests is exercised with
QuerySamples == {<<>>, <<" ">>, <<"q">>}
Keys == {"Enter", "Shift"}
RequestIds == 1..MaxRequests

\* One grounding chunk of a response.  web: the chunk has a web part; title
\* and uri are those of the web part, undefined when it does not carry them.
Chunk(id, k, kind) ==
    [web   |-> kind # "other",
     title |-> IF kind = "other" THEN Undefined
               ELSE "T" \o ToString(id) \o "." \o ToString(k),
     uri   |-> IF kind = "web" THEN "U" \o ToString(id) \o "." \o ToString(k)
               ELSE Undefined]

ChunkKinds == {"web", "weblinkless", "other"}

\* the chunk lists the engine may attach to the response to request id
ChunkLists(id) ==
    UNION {{[k \in 1..n |-> Chunk(id, k, kinds[k])] : kinds \in [1..n -> ChunkKinds]}
           : n \in 0..MaxChunks}

\* the text of the answer to request id
AnswerText(id) == "ANSWER " \o ToString(id)

\* what the engine can answer to request id: a rejection, or a response
\* with a text (possibly empty or undefined) and possibly grounding chunks
Rejection == [status |-> "fail", text |-> Undefined, hasChunks |-> FALSE, chunks |-> <<>>]
NoOutcome == [status |-> "none", text |-> Undefined, hasChunks |-> FALSE, chunks |-> <<>>]
Responses(id) ==
    {[status |-> "ok", text |-> t, hasChunks |-> FALSE, chunks |-> <<>>]
        : t \in {Undefined, "", AnswerText(id)}}
    \cup {[status |-> "ok", text |-> t, hasChunks |-> TRUE, chunks |-> c]
        : t \in {Undefined, "", AnswerText(id)}, c \in ChunkLists(id)}

\* the record of the handler that ran last
Event(op, key, id, text) == [op |-> op, key |-> key, id |-> id, text |-> text]

\* a commit test that forgets to trim the query
ShouldSearchUntrimmed(key, query) == key = "Enter" /\ query # <<>>

\* e.key === 'Enter' && searchQuery.trim()
ShouldSearch(key, query) == key = "Enter" /\ Trim(query) # <<>>

\* chunks.map(c => c.web).filter(w => w).map(w => ({title, uri}))
WebLink(c) == [title |-> c.title, uri |-> c.uri]
IsWeb(c) == c.web
ExtractUrls(chunks) ==
    LET webs == SelectSeq(chunks, IsWeb)
    IN  [k \in 1..Len(webs) |-> WebLink(webs[k])]

\* a commit that leaves the citations of the previous search in place
UrlsAfterCommitKept(urls) == urls

\* setGroundingUrls([]) of the commit
UrlsAfterCommit(urls) == <<>>

\* onKeyDown={handleSearch}, up to the await: the three setters of the commit
handleSearch(key) ==
    /\ key \in Keys
    /\ IF ShouldSearch(key, searchQuery)
       THEN /\ issued < MaxRequests
            /\ isSearching' = TRUE
            /\ searchResult' = Null
            /\ groundingUrls' = UrlsAfterCommit(groundingUrls)
            /\ issued' = issued + 1
            /\ inflight' = inflight \cup {issued + 1}
            /\ latestOutcome' = NoOutcome
            /\ last' = Event("handleSearch", key, issued + 1, NoText)
       ELSE /\ UNCHANGED <<isSearching, searchResult, groundingUrls, issued,
                           inflight, latestOutcome>>
            /\ last' = Event("handleSearch", key, 0, NoText)
    /\ UNCHANGED <<searchQuery, newsVars, weatherVars, deviceVars>>

\* the state the continuation after the await leaves, on a response
ResultAfterResponse(r) == r.text
UrlsAfterResponse(r, urls) == IF r.hasChunks THEN ExtractUrls(r.chunks) ELSE urls
\* the state the catch block leaves
ResultAfterError == SEARCH_ERROR
UrlsAfterError(urls) == urls
\* a settlement without the finally block
SearchingAfterSettleKept(id) == isSearching

\* the finally block
SearchingAfterSettle(id) == FALSE

\* the continuation of handleSearch invocation id when the engine responds
SearchResolved(id, r) ==
    /\ id \in inflight
    /\ searchResult' = ResultAfterResponse(r)
    /\ groundingUrls' = UrlsAfterResponse(r, groundingUrls)
    /\ isSearching' = SearchingAfterSettle(id)
    /\ inflight' = inflight \ {id}
    /\ latestOutcome' = IF id = issued THEN r ELSE latestOutcome
    /\ last' = Event("SearchResolved", "", id, NoText)
    /\ UNCHANGED <<searchQuery, issued, newsVars, weatherVars, deviceVars>>

\* the continuation of handleSearch invocation id when the engine call throws
SearchRejected(id) ==
    /\ id \in inflight
    /\ searchResult' = ResultAfterError
    /\ groundingUrls' = UrlsAfterError(groundingUrls)
    /\ isSearching' = SearchingAfterSettle(id)
    /\ inflight' = inflight \ {id}
    /\ latestOutcome' = IF id = issued THEN Rejection ELSE latestOutcome
    /\ last' = Event("SearchRejected", "", id, NoText)
    /\ UNCHANGED <<searchQuery, issued, newsVars, weatherVars, deviceVars>>

\* the state HOME leaves
ResultAfterHome == Null

\* HOME button: onClick={() => setSearchResult(null)}
HomeClick ==
    /\ searchResult' = ResultAfterHome
    /\ last' = Event("HomeClick", "", 0, NoText)
    /\ UNCHANGED <<searchQuery, groundingUrls, isSearching, inflight, issued,
                   latestOutcome, newsVars, weatherVars, deviceVars>>

\* search input: onChange={(e) => setSearchQuery(e.target.value)}
onChange(q) ==
    /\ q # searchQuery
    /\ searchQuery' = q
    /\ last' = Event("onChange", "", 0, NoText)
    /\ UNCHANGED <<searchResult, groundingUrls, isSearching, inflight, issued,
                   latestOutcome, newsVars, weatherVars, deviceVars>>

----------------------------------------------------------------------------
(* News feed: fetchNews *)

NEWS_FALLBACK == <<
    <<"N", "E", "T", "W", "O", "R", "K", " ", "E", "R", "R", "O", "R", ":",
      " ", "U", "N", "A", "B", "L", "E", " ", "T", "O", " ", "S", "Y", "N",
      "C", " ", "W", "I", "T", "H", " ", "W", "O", "R", "L", "D", " ", "D",
      "A", "T", "A", ".">>,
    <<"L", "O", "C", "A", "L", " ", "C", "A", "C", "H", "E", " ", "L", "O",
      "A", "D", "E", "D", ".">>,
    <<"S", "Y", "S", "T", "E", "M", " ", "D", "I", "A", "G", "N", "O", "S",
      "T", "I", "C", "S", " ", "R", "E", "C", "O", "M", "M", "E", "N", "D",
      "E", "D", ".">>>>

\* line.trim() !== ''
NotBlank(line) == Trim(line) # <<>>

\* a parse that forgets the clamp to three entries
ParseHeadlinesUnclamped(chars) == SelectSeq(Split(chars, "\n"), NotBlank)

\* text.split('\n').filter(line => line.trim() !== '').slice(0, 3)
ParseHeadlines(chars) == Slice0(SelectSeq(Split(chars, "\n"), NotBlank), 3)

\* the continuation of fetchNews when the engine responds with text t
fetchNewsResolved(t) ==
    /\ newsPending
    /\ newsPending' = FALSE
    /\ newsHeadlines' = IF TruthyText(t) THEN ParseHeadlines(t.chars)
                        ELSE newsHeadlines
    /\ last' = Event("fetchNewsResolved", "", 0, t)
    /\ UNCHANGED <<searchVars, weatherVars, deviceVars>>

\* a catch block that only logs
HeadlinesAfterErrorKept(prev) == prev

\* the headlines the catch block of fetchNews leaves
HeadlinesAfterError(prev) == NEWS_FALLBACK

\* the catch block of fetchNews
fetchNewsRejected ==
    /\ newsPending
    /\ newsPending' = FALSE
    /\ newsHeadlines' = HeadlinesAfterError(newsHeadlines)
    /\ last' = Event("fetchNewsRejected", "", 0, NoText)
    /\ UNCHANGED <<searchVars, weatherVars, deviceVars>>

\* the engine texts the feed is exercised with next to the search handler
FeedSamples == {NoText, Text(<<"h", "\n", " ", "\n", "h">>)}

----------------------------------------------------------------------------
(* Feed pane: the render branches of the data feed *)

\* isSearching ? querying : searchResult ? result view : headline view,
\* the headline view being the placeholder while newsHeadlines is empty
FeedPane ==
    IF isSearching THEN "querying"
    ELSE IF Truthy(searchResult) THEN "result"
    ELSE IF Len(newsHeadlines) = 0 THEN "placeholder"
    ELSE "headlines"

\* the feed header: searchResult ? 'SEARCH RESULTS / GROUNDED' : 'DATA FEED / LIVE STREAM'
FeedHeader == IF Truthy(searchResult) THEN "SEARCH RESULTS" ELSE "DATA FEED"

\* the source links rendered in the result view
ShownLinks == IF FeedPane = "result" THEN groundingUrls ELSE <<>>

----------------------------------------------------------------------------
(* Weather: fetchWeather *)

Reading(temp, condition, location) ==
    [temp |-> temp, condition |-> condition, location |-> location]

\* useState({ temp: "--", condition: "SCANNING...", location: "UNKNOWN SECTOR" })
WEATHER_INITIAL ==
    Reading(<<"-", "-">>,
            <<"S", "C", "A", "N", "N", "I", "N", "G", ".", ".", ".">>,
            <<"U", "N", "K", "N", "O", "W", "N", " ", "S", "E", "C", "T", "O", "R">>)

\* setWeather({ temp: "--", condition: "NO SIGNAL", location: "GPS ERROR" })
WEATHER_GPS_ERROR ==
    Reading(<<"-", "-">>,
            <<"N", "O", " ", "S", "I", "G", "N", "A", "L">>,
            <<"G", "P", "S", " ", "E", "R", "R", "O", "R">>)

\* setWeather({ temp: "ERR", condition: "OFFLINE", location: "UNKNOWN" })
WEATHER_OFFLINE ==
    Reading(<<"E", "R", "R">>,
            <<"O", "F", "F", "L", "I", "N", "E">>,
            <<"U", "N", "K", "N", "O", "W", "N">>)

DATA_RECEIVED == <<"D", "A", "T", "A", " ", "R", "E", "C", "E", "I", "V", "E", "D">>
LOCAL_LABEL == <<"L", "O", "C", "A", "L">>

Attempts == 1..MaxAttempts
WeatherTexts ==
    {NoText} \cup {Text(s) : s \in SeqsUpTo({"|", " ", "a"}, MaxWeatherLen)}

\* a split that forgets to trim the segments
WeatherPartsUntrimmed(chars) == Split(chars, "|")

\* text.split('|').map(s => s.trim())
WeatherParts(chars) ==
    LET segments == Split(chars, "|")
    IN  [k \in 1..Len(segments) |-> Trim(segments[k])]

\* the reading the try block leaves when the engine responds with text t
\* while the reading is prev
WeatherAfterResponse(t, prev) ==
    IF TruthyText(t)
    THEN LET parts == WeatherParts(t.chars)
         IN  IF Len(parts) >= 3
             THEN [location |-> parts[1], temp |-> parts[2], condition |-> parts[3]]
             ELSE [prev EXCEPT !.condition = DATA_RECEIVED, !.location = LOCAL_LABEL]
    ELSE prev

\* a catch block that merges into the previous reading instead of replacing it
WeatherAfterErrorMerged(prev) ==
    [prev EXCEPT !.condition = WEATHER_OFFLINE.condition,
                 !.location = WEATHER_OFFLINE.location]

\* the reading the catch block leaves
WeatherAfterError(prev) == WEATHER_OFFLINE

\* the reading the geolocation error callback leaves
WeatherAfterPositionError(prev) == WEATHER_GPS_ERROR

\* the reading fetchWeather leaves when navigator.geolocation is missing
WeatherAfterMissingCapability(prev) == prev

\* fetchWeather (startup effect, Rescan button), up to getCurrentPosition
fetchWeather ==
    IF hasGeolocation
    THEN \E i \in Attempts :
            /\ wstage[i] = "idle"
            /\ \A j \in 1..(i - 1) : wstage[j] # "idle"
            /\ wstage' = [wstage EXCEPT ![i] = "locating"]
            /\ last' = Event("fetchWeather", "located", i, NoText)
            /\ UNCHANGED <<weather, hasGeolocation, searchVars, newsVars, deviceVars>>
    ELSE /\ weather' = WeatherAfterMissingCapability(weather)
         /\ last' = Event("fetchWeather", "unavailable", 0, NoText)
         /\ UNCHANGED <<wstage, hasGeolocation, searchVars, newsVars, deviceVars>>

\* the error callback of getCurrentPosition for invocation i
PositionError(i) ==
    /\ wstage[i] = "locating"
    /\ weather' = WeatherAfterPositionError(weather)
    /\ wstage' = [wstage EXCEPT ![i] = "idle"]
    /\ last' = Event("PositionError", "", i, NoText)
    /\ UNCHANGED <<hasGeolocation, searchVars, newsVars, deviceVars>>

\* the success callback of getCurrentPosition for invocation i, up to the await
PositionSuccess(i) ==
    /\ wstage[i] = "locating"
    /\ wstage' = [wstage EXCEPT ![i] = "asking"]
    /\ last' = Event("PositionSuccess", "", i, NoText)
    /\ UNCHANGED <<weather, hasGeolocation, searchVars, newsVars, deviceVars>>

\* the continuation of invocation i when the engine responds with text t
WeatherResolved(i, t) ==
    /\ wstage[i] = "asking"
    /\ weather' = WeatherAfterResponse(t, weather)
    /\ wstage' = [wstage EXCEPT ![i] = "idle"]
    /\ last' = Event("WeatherResolved", "", i, t)
    /\ UNCHANGED <<hasGeolocation, searchVars, newsVars, deviceVars>>

\* the catch block of invocation i
WeatherRejected(i) ==
    /\ wstage[i] = "asking"
    /\ weather' = WeatherAfterError(weather)
    /\ wstage' = [wstage EXCEPT ![i] = "idle"]
    /\ last' = Event("WeatherRejected", "", i, NoText)
    /\ UNCHANGED <<hasGeolocation, searchVars, newsVars, deviceVars>>

----------------------------------------------------------------------------
(* Media player: togglePlay, nextTrack and the media progress effect *)

\* PLAYLIST.length
PlaylistLength == 4
\* (prev + 1) % 100
ProgressModulus == 100

\* a tick that forgets to wrap
ProgressAfterTickUnwrapped(p) == p + 1

\* setTrackProgress(prev => (prev + 1) % 100)
ProgressAfterTick(p) == (p + 1) % ProgressModulus

\* a skip that forgets to wrap
TrackAfterNextUnwrapped(i) == i + 1

\* setCurrentTrackIndex((prev) => (prev + 1) % PLAYLIST.length)
TrackAfterNext(i) == (i + 1) % PlaylistLength

\* a cleanup that clears nothing
TimersAfterCleanupLeaky(timers, held) == timers

\* the media effect's cleanup: clearInterval(interval), interval being
\* undefined when the effect created none
TimersAfterCleanup(timers, held) == IF held THEN timers - 1 ELSE timers

\* the media effect's body: if (isPlaying) interval = setInterval(...)
TimersAfterSetup(timers, playing) == IF playing THEN timers + 1 ELSE timers

\* the media effect, deps [isPlaying]: React runs the cleanup of the previous
\* run and the body again when isPlaying has changed
MediaEffect(playing) ==
    IF playing # isPlaying
    THEN /\ playTimers' = TimersAfterSetup(TimersAfterCleanup(playTimers, playInterval), playing)
         /\ playInterval' = playing
    ELSE UNCHANGED <<playTimers, playInterval>>

\* togglePlay = () => setIsPlaying(!isPlaying)
togglePlay ==
    /\ mounted
    /\ isPlaying' = ~isPlaying
    /\ MediaEffect(~isPlaying)
    /\ last' = Event("togglePlay", "", 0, NoText)
    /\ UNCHANGED <<currentTrackIndex, trackProgress, mounted, clockVars,
                   batteryVars, feedVars>>

\* nextTrack
nextTrack ==
    /\ mounted
    /\ currentTrackIndex' = TrackAfterNext(currentTrackIndex)
    /\ trackProgress' = 0
    /\ isPlaying' = TRUE
    /\ MediaEffect(TRUE)
    /\ last' = Event("nextTrack", "", 0, NoText)
    /\ UNCHANGED <<mounted, clockVars, batteryVars, feedVars>>

\* the callback of a live media interval; React drops the update of an
\* unmounted component
PlayTick ==
    /\ playTimers > 0
    /\ trackProgress' = IF mounted THEN ProgressAfterTick(trackProgress)
                        ELSE trackProgress
    /\ last' = Event("PlayTick", "", 0, NoText)
    /\ UNCHANGED <<isPlaying, currentTrackIndex, playTimers, playInterval,
                   mounted, clockVars, batteryVars, feedVars>>

----------------------------------------------------------------------------
(* Clock: the clock effect *)

\* a cleanup that clears nothing
ClockTimersAfterCleanupLeaky(timers) == timers

\* the clock effect's cleanup: clearInterval(timer)
ClockTimersAfterCleanup(timers) == timers - 1

\* the callback of a live clock interval: setTime(new Date())
ClockTick ==
    /\ clockTimers > 0
    /\ time < MaxClock
    /\ time' = IF mounted THEN time + 1 ELSE time
    /\ last' = Event("ClockTick", "", 0, NoText)
    /\ UNCHANGED <<clockTimers, mounted, playerVars, batteryVars, feedVars>>

----------------------------------------------------------------------------
(* Battery: the battery effect *)

\* bat.level * 100 and bat.charging, as the handle reports them
BatteryLevels == {0, 20, 50, 100}
BatteryStatus(level, charging) == [level |-> level, charging |-> charging]
BatteryReports == {BatteryStatus(l, c) : l \in BatteryLevels, c \in BOOLEAN}

\* the battery effect returns no cleanup: unmounting removes no listener
ListenersAfterUnmount(listeners) == listeners

\* updateBattery: setBattery({ level: bat.level * 100, charging: bat.charging }),
\* an update React drops when the component is unmounted
BatteryAfterUpdate(report) == IF mounted THEN report ELSE battery

\* getBattery().then(bat => ...): updateBattery() and the two addEventListener
BatteryResolved(report) ==
    /\ batteryStage = "requesting"
    /\ batteryStage' = "listening"
    /\ battery' = BatteryAfterUpdate(report)
    /\ batteryListeners' = batteryListeners + 2
    /\ last' = Event("BatteryResolved", "", 0, NoText)
    /\ UNCHANGED <<hasBattery, mounted, clockVars, playerVars, feedVars>>

\* a levelchange or chargingchange event delivered to a registered listener
BatteryEvent(report) ==
    /\ batteryListeners > 0
    /\ battery' = BatteryAfterUpdate(report)
    /\ last' = Event("BatteryEvent", "", 0, NoText)
    /\ UNCHANGED <<hasBattery, batteryStage, batteryListeners, mounted,
                   clockVars, playerVars, feedVars>>

----------------------------------------------------------------------------
(* Deactivation: React runs the cleanup of every effect *)

Unmount ==
    /\ mounted
    /\ mounted' = FALSE
    /\ clockTimers' = ClockTimersAfterCleanup(clockTimers)
    /\ playTimers' = TimersAfterCleanup(playTimers, playInterval)
    /\ playInterval' = FALSE
    /\ batteryListeners' = ListenersAfterUnmount(batteryListeners)
    /\ last' = Event("Unmount", "", 0, NoText)
    /\ UNCHANGED <<time, isPlaying, currentTrackIndex, trackProgress, battery,
                   hasBattery, batteryStage, feedVars>>

----------------------------------------------------------------------------
(* The component after its first render and its mount effects *)

\* useState initial values; the mount effect has called fetchNews and fetchWeather
InitWith(geolocation, batteryApi) ==
    /\ searchQuery = <<>>
    /\ searchResult = Null
    /\ groundingUrls = <<>>
    /\ isSearching = FALSE
    /\ newsHeadlines = <<>>
    /\ weather = WEATHER_INITIAL
    /\ inflight = {}
    /\ issued = 0
    /\ latestOutcome = NoOutcome
    /\ newsPending = TRUE
    /\ hasGeolocation = geolocation
    /\ wstage = [i \in Attempts |->
                    IF i = 1 /\ hasGeolocation THEN "locating" ELSE "idle"]
    /\ mounted = TRUE
    /\ time = 0
    /\ clockTimers = 1
    /\ isPlaying = FALSE
    /\ currentTrackIndex = 0
    /\ trackProgress = 0
    /\ playTimers = 0
    /\ playInterval = FALSE
    /\ battery = BatteryStatus(100, TRUE)
    /\ hasBattery = batteryApi
    /\ batteryStage = IF batteryApi THEN "requesting" ELSE "none"
    /\ batteryListeners = 0
    /\ last = Event("mount", "", 0, NoText)

\* a browser with the geolocation capability
Init == InitWith(TRUE, TRUE)

\* the search handler, the HOME button and the feed
Next ==
    \/ \E key \in Keys : handleSearch(key)
    \/ \E id \in RequestIds : \E r \in Responses(id) : SearchResolved(id, r)
    \/ \E id \in RequestIds : SearchRejected(id)
    \/ HomeClick
    \/ \E q \in QuerySamples : onChange(q)
    \/ \E t \in FeedSamples : fetchNewsResolved(t)
    \/ fetchNewsRejected

Spec == Init /\ [][Next]_vars

\* the weather resolver
NextWeather ==
    \/ fetchWeather
    \/ \E i \in Attempts : PositionError(i)
    \/ \E i \in Attempts : PositionSuccess(i)
    \/ \E i \in Attempts : \E t \in WeatherTexts : WeatherResolved(i, t)
    \/ \E i \in Attempts : WeatherRejected(i)

\* a browser with or without the geolocation capability
InitWeather == \E g \in BOOLEAN : InitWith(g, TRUE)

SpecWeather == InitWeather /\ [][NextWeather]_vars

\* the media player and the clock, up to deactivation
NextPlayer ==
    \/ togglePlay
    \/ nextTrack
    \/ PlayTick
    \/ ClockTick
    \/ Unmount

SpecPlayer == Init /\ [][NextPlayer]_vars

\* the battery listeners, up to and after deactivation
NextBattery ==
    \/ \E report \in BatteryReports : BatteryResolved(report)
    \/ \E report \in BatteryReports : BatteryEvent(report)
    \/ ClockTick
    \/ Unmount

\* a browser with or without the battery capability
InitBattery == \E b \in BOOLEAN : InitWith(TRUE, b)

SpecBattery == InitBattery /\ [][NextBattery]_vars

\* the news loader, with every engine text up to MaxNewsLen
NewsTexts ==
    {NoText} \cup {Text(s) : s \in SeqsUpTo({"\n", " ", "h"}, MaxNewsLen)}

NextNews ==
    \/ \E t \in NewsTexts : fetchNewsResolved(t)
    \/ fetchNewsRejected

SpecNews == Init /\ [][NextNews]_vars

\* the search input and the commit test, with every input text up to
\* MaxQueryLen and responses that carry no grounding
PlainResponses(id) == {r \in Responses(id) : ~r.hasChunks}

NextInput ==
    \/ \E key \in Keys : handleSearch(key)
    \/ \E q \in Queries : onChange(q)
    \/ \E id \in RequestIds : \E r \in PlainResponses(id) : SearchResolved(id, r)
    \/ \E id \in RequestIds : SearchRejected(id)
    \/ HomeClick

SpecInput == Init /\ [][NextInput]_vars

\* the engine call of invocation id settles: the await returns or throws
Settle(id) ==
    \/ \E r \in PlainResponses(id) : SearchResolved(id, r)
    \/ SearchRejected(id)

\* the search input and handler when every engine call settles in the end;
\* the user submits at most MaxRequests queries
SpecLive ==
    Init /\ [][NextInput]_vars /\ \A id \in RequestIds : WF_vars(Settle(id))

----------------------------------------------------------------------------
(* Properties of the search handler and the feed pane *)

SettleOps == {"SearchResolved", "SearchRejected"}

\* C1: a response (success or failure) to a request that is no longer the
\* most recently submitted one is never committed: the step that delivers it
\* changes none of resultText, citations and pending.
C1_StaleResponseDiscarded ==
    [][(last'.op \in SettleOps /\ last'.id # issued)
          => UNCHANGED <<searchResult, groundingUrls, isSearching>>]_vars

\* C2: while the most recently submitted request has not settled, pending is
\* true and the feed pane shows the querying indicator.
C2_PendingWhileLatestInFlight ==
    (issued > 0 /\ issued \in inflight)
        => (isSearching /\ FeedPane = "querying" /\ ShownLinks = <<>>)

\* the mode the feed pane is claimed to show: any text other than null,
\* the empty text included, selects the result view
ClaimedMode(pending, resultText, headlines) ==
    IF pending THEN "querying"
    ELSE IF resultText \notin {Null, Undefined} THEN "result"
    ELSE IF Len(headlines) = 0 THEN "placeholder"
    ELSE "headlines"

\* C3: the feed pane's mode is the function ClaimedMode of pending,
\* resultText and HeadlineSet, and the header names the same mode.
C3_ModeIsClaimedFunction ==
    /\ FeedPane = ClaimedMode(isSearching, searchResult, newsHeadlines)
    /\ (FeedHeader = "SEARCH RESULTS") <=> (searchResult \notin {Null, Undefined})

\* C4: right after the home action the session is idle (not pending, no
\* result) and the feed pane shows the headline view or its placeholder.
C4_HomeLeavesIdle ==
    last.op = "HomeClick"
        => /\ searchResult = Null
           /\ ~isSearching
           /\ FeedPane = (IF Len(newsHeadlines) = 0 THEN "placeholder" ELSE "headlines")

\* C5: right after the latest request fails the session is exactly the error
\* text, no citations, not pending.
C5_FailureSession ==
    (last.op = "SearchRejected" /\ last.id = issued)
        => /\ searchResult = SEARCH_ERROR
           /\ groundingUrls = <<>>
           /\ ~isSearching

\* the citations of a response that have a link, in the response's order
HasLink(c) == c.web /\ c.uri \notin {Null, Undefined, ""}
LinkBearing(r) ==
    LET linked == SelectSeq(r.chunks, HasLink)
    IN  [k \in 1..Len(linked) |-> [title |-> linked[k].title, uri |-> linked[k].uri]]

\* a response with a non-empty text whose web chunks all carry a link
WellFormed(r) ==
    /\ r.status = "ok" /\ Truthy(r.text)
    /\ \A k \in 1..Len(r.chunks) : r.chunks[k].web => HasLink(r.chunks[k])

\* C6: right after the latest request succeeds the session is resolved with
\* that response's text and that response's link-bearing citations (none if
\* it carries none), not pending, and the feed pane shows the result view
\* with those citations and no others.  Stated for the well-formed responses.
C6_SuccessSession ==
    (last.op = "SearchResolved" /\ last.id = issued /\ WellFormed(latestOutcome))
        => /\ searchResult = latestOutcome.text
           /\ groundingUrls = LinkBearing(latestOutcome)
           /\ ~isSearching
           /\ FeedPane = "result"
           /\ ShownLinks = LinkBearing(latestOutcome)

\* C7: a key event that is not Enter, or an Enter while the input is empty
\* or whitespace only, issues no request and changes none of resultText,
\* citations and pending.
C7_BlankCommitDoesNothing ==
    [][(last'.op = "handleSearch"
          /\ (last'.key # "Enter" \/ \A i \in 1..Len(searchQuery) : IsSpace(searchQuery[i])))
          => UNCHANGED <<searchResult, groundingUrls, isSearching, inflight, issued>>]_vars

\* C7 happens: Enter was pressed on a whitespace-only input while an earlier
\* request was pending, and nothing was issued
C7_Witness ==
    /\ last.op = "handleSearch" /\ last.key = "Enter" /\ last.id = 0
    /\ Len(searchQuery) = MaxQueryLen
    /\ isSearching /\ Cardinality(inflight) = 1

----------------------------------------------------------------------------
(* Properties of the weather resolver *)

\* C8: right after a position request fails, by the error callback or
\* because the geolocation capability is missing, the reading is exactly
\* the GPS error reading and the attempt has made no engine call.
C8_GeolocationFailure ==
    (last.op = "PositionError" \/ (last.op = "fetchWeather" /\ last.key = "unavailable"))
        => /\ weather = WEATHER_GPS_ERROR
           /\ (last.id \in Attempts => wstage[last.id] # "asking")

\* C9: right after the engine call of an attempt fails the reading is exactly
\* the offline reading, and the attempt has ended.
C9_ServiceFailure ==
    last.op = "WeatherRejected"
        => /\ weather = WEATHER_OFFLINE
           /\ wstage[last.id] = "idle"

\* C9 happens: an engine failure arrived while another attempt was still
\* outstanding
C9_Witness ==
    /\ last.op = "WeatherRejected"
    /\ weather = WEATHER_OFFLINE
    /\ \E j \in Attempts : wstage[j] = "asking"

\* the positions of the separators of a text, and its n-th segment
PipesOf(s) == {i \in 1..Len(s) : s[i] = "|"}
SegmentStart(s, n) ==
    IF n = 1 THEN 1
    ELSE 1 + CHOOSE p \in PipesOf(s) : Cardinality({q \in PipesOf(s) : q < p}) = n - 2
SegmentEnd(s, n) ==
    IF Cardinality(PipesOf(s)) < n THEN Len(s)
    ELSE (CHOOSE p \in PipesOf(s) : Cardinality({q \in PipesOf(s) : q < p}) = n - 1) - 1
\* the n-th segment without its leading and trailing whitespace
Stripped(s, n) ==
    LET inked == {i \in SegmentStart(s, n)..SegmentEnd(s, n) : ~IsSpace(s[i])}
    IN  IF inked = {} THEN <<>>
        ELSE SubSeq(s, CHOOSE i \in inked : \A j \in inked : i <= j,
                       CHOOSE i \in inked : \A j \in inked : i >= j)

\* C10: right after an engine text with two or more separators is committed
\* the reading is its first three segments, stripped: location, temperature,
\* condition.
C10_WellFormedResponse ==
    (last.op = "WeatherResolved" /\ Cardinality(PipesOf(last.text.chars)) >= 2)
        => weather = [location  |-> Stripped(last.text.chars, 1),
                      temp      |-> Stripped(last.text.chars, 2),
                      condition |-> Stripped(last.text.chars, 3)]

\* C10 happens: a text of three segments, the first one padded, was committed
\* over a reading that held other values
C10_Witness ==
    /\ last.op = "WeatherResolved"
    /\ last.text.chars = <<" ", "a", "|", "|">>
    /\ weather = Reading(<<>>, <<>>, <<"a">>)

\* C11: the step that commits an engine text with fewer than two separators,
\* the empty text included, leaves condition DATA RECEIVED, location LOCAL
\* and the temperature held before the step.
C11_MalformedResponse ==
    [][(last'.op = "WeatherResolved" /\ last'.text.present
          /\ Cardinality(PipesOf(last'.text.chars)) < 2)
          => weather' = [temp      |-> weather.temp,
                         condition |-> DATA_RECEIVED,
                         location  |-> LOCAL_LABEL]]_vars

WeatherSettleOps == {"PositionError", "WeatherResolved", "WeatherRejected"}

\* C19: once every attempt has settled, after attempts that were outstanding
\* together, the reading is the outcome of the attempt that completed last:
\* the GPS error reading, the offline reading, the three stripped segments
\* of a well-formed text, or DATA RECEIVED / LOCAL for any other text.
C19_LastCompletionWins ==
    (/\ last.op \in WeatherSettleOps
     /\ last.id > 1
     /\ \A i \in Attempts : wstage[i] = "idle")
        => CASE last.op = "PositionError" -> weather = WEATHER_GPS_ERROR
             [] last.op = "WeatherRejected" -> weather = WEATHER_OFFLINE
             [] last.op = "WeatherResolved" /\ ~last.text.present -> TRUE
             [] last.op = "WeatherResolved" /\ last.text.present
                  /\ Cardinality(PipesOf(last.text.chars)) >= 2 ->
                    weather = [location  |-> Stripped(last.text.chars, 1),
                               temp      |-> Stripped(last.text.chars, 2),
                               condition |-> Stripped(last.text.chars, 3)]
             [] OTHER -> weather.condition = DATA_RECEIVED
                         /\ weather.location = LOCAL_LABEL

----------------------------------------------------------------------------
(* Properties of the news loader *)

\* the lines of a text, by the positions of its line breaks
BreaksOf(s) == {i \in 1..Len(s) : s[i] = "\n"}
LineCount(s) == Cardinality(BreaksOf(s)) + 1
LineStart(s, n) ==
    IF n = 1 THEN 1
    ELSE 1 + CHOOSE p \in BreaksOf(s) : Cardinality({q \in BreaksOf(s) : q < p}) = n - 2
LineEnd(s, n) ==
    IF n = LineCount(s) THEN Len(s)
    ELSE (CHOOSE p \in BreaksOf(s) : Cardinality({q \in BreaksOf(s) : q < p}) = n - 1) - 1
LineAt(s, n) == SubSeq(s, LineStart(s, n), LineEnd(s, n))
\* the lines that hold a character other than whitespace
InkedLines(s) ==
    {n \in 1..LineCount(s) : \E i \in LineStart(s, n)..LineEnd(s, n) : ~IsSpace(s[i])}
\* the first three of them, in the order of the text
FirstThreeInked(s) ==
    LET kept == {n \in InkedLines(s) : Cardinality({m \in InkedLines(s) : m < n}) < 3}
    IN  [j \in 1..Cardinality(kept) |->
            LineAt(s, CHOOSE n \in kept : Cardinality({m \in kept : m < n}) = j - 1)]

\* C12: right after an engine text is committed the headlines are its first
\* three non-blank lines in their order (fewer if it has fewer); in every
\* state there are at most three headlines and none is blank.
C12_HeadlinesParsed ==
    /\ (last.op = "fetchNewsResolved" /\ last.text.present)
          => newsHeadlines = FirstThreeInked(last.text.chars)
    /\ Len(newsHeadlines) <= 3
    /\ \A k \in 1..Len(newsHeadlines) :
          \E i \in 1..Len(newsHeadlines[k]) : ~IsSpace(newsHeadlines[k][i])

\* C12 happens: a text of four non-blank lines was committed and clamped
C12_Witness ==
    /\ last.op = "fetchNewsResolved"
    /\ last.text.chars = <<"h", "\n", "h", "\n", "h", "\n", "h">>
    /\ Len(newsHeadlines) = 3

\* C13: right after the startup call fails the headlines are exactly the
\* three fallback lines, no call is outstanding, and the feed pane shows the
\* headlines, not the placeholder, whenever it is in its headline view.
C13_NewsFallback ==
    last.op = "fetchNewsRejected"
        => /\ newsHeadlines = NEWS_FALLBACK
           /\ Len(newsHeadlines) = 3
           /\ ~newsPending
           /\ FeedPane # "placeholder"
           /\ (~isSearching /\ ~Truthy(searchResult)) => FeedPane = "headlines"

\* C13 happens: the call failed while no search was shown
C13_Witness ==
    /\ last.op = "fetchNewsRejected"
    /\ FeedPane = "headlines"
    /\ issued > 0

----------------------------------------------------------------------------
(* Properties of the media player, the clock and the battery listeners *)

\* C14: progress is always in 0..99; a step changes it only as a tick, from
\* p to p + 1 and from 99 to 0, or as nextTrack, to 0.
C14_ProgressRange ==
    /\ [](trackProgress \in 0..99)
    /\ [][trackProgress' # trackProgress
            => \/ /\ last'.op = "PlayTick"
                  /\ trackProgress' = IF trackProgress = 99 THEN 0 ELSE trackProgress + 1
               \/ /\ last'.op = "nextTrack"
                  /\ trackProgress' = 0]_vars

\* C14 happens: a tick has wrapped progress from 99 to 0
C14_Witness ==
    /\ last.op = "PlayTick"
    /\ trackProgress = 0
    /\ isPlaying

\* C15: while the component is mounted exactly one media interval is live
\* when playing and none when paused; progress does not change over a step
\* that starts and ends paused.
C15_OnePlaybackTimer ==
    /\ [](mounted => playTimers = (IF isPlaying THEN 1 ELSE 0))
    /\ [][(~isPlaying /\ ~isPlaying') => trackProgress' = trackProgress]_vars

\* C15 happens: playback was paused after it had advanced, and nextTrack
\* was taken while playing
C15_Witness ==
    /\ last.op = "togglePlay"
    /\ ~isPlaying
    /\ playTimers = 0
    /\ trackProgress > 0
    /\ currentTrackIndex > 0

\* C16: the track index is always a playlist index; nextTrack moves it to
\* the next index, from the last one to the first, sets progress to 0 and
\* playing to true.
C16_NextTrack ==
    /\ [](currentTrackIndex \in 0..(PlaylistLength - 1))
    /\ [][last'.op = "nextTrack"
            => /\ currentTrackIndex' = IF currentTrackIndex = PlaylistLength - 1
                                       THEN 0 ELSE currentTrackIndex + 1
               /\ trackProgress' = 0
               /\ isPlaying']_vars

\* C16 happens: nextTrack has wrapped from the last track to the first
C16_Witness ==
    /\ last.op = "nextTrack"
    /\ currentTrackIndex = 0
    /\ trackProgress = 0
    /\ isPlaying
    /\ playTimers = 1

\* C17: while mounted exactly one clock interval is live; after unmounting
\* no clock and no media interval is live, and no step changes the clock
\* reading or the progress.
C17_TimerTeardown ==
    /\ [](mounted => clockTimers = 1)
    /\ [](~mounted => (clockTimers = 0 /\ playTimers = 0))
    /\ [][~mounted => UNCHANGED <<time, trackProgress>>]_vars

\* C17 happens: the component was unmounted while playing, after the clock
\* and the progress had advanced
C17_Witness ==
    /\ ~mounted
    /\ isPlaying
    /\ trackProgress > 0
    /\ time > 0
    /\ clockTimers = 0 /\ playTimers = 0

\* C18: after unmounting no levelchange or chargingchange listener is
\* registered on the battery handle.
C18_BatteryListenersReleased ==
    ~mounted => batteryListeners = 0

----------------------------------------------------------------------------
(* Properties of the citations *)

\* C20: every citation of the session has a link, a uri that is present and
\* not empty.
C20_CitationsHaveLinks ==
    \A k \in 1..Len(groundingUrls) : groundingUrls[k].uri \notin {Null, Undefined, ""}

----------------------------------------------------------------------------
(* Properties of the search slots over time *)

\* C21: when every engine call settles, a pending search leads to a state
\* that is not pending and the querying indicator leads to another view;
\* pending turns true only by a commit, so it stays false until the next one.
C21_SearchSettles ==
    /\ isSearching ~> ~isSearching
    /\ (FeedPane = "querying") ~> (FeedPane # "querying")
    /\ [][(~isSearching /\ isSearching')
            => (last'.op = "handleSearch" /\ last'.id > 0)]_vars

\* C21 happens: every submitted query has settled, the last by a failure
C21_Witness ==
    /\ issued = MaxRequests
    /\ inflight = {}
    /\ last.op = "SearchRejected"
    /\ ~isSearching
    /\ FeedPane = "result"

\* C22: while pending, the result is null and the citations are empty; a
\* commit sets pending and clears both in one step, and every completion
\* sets pending to false in the step that writes the result or citations.
C22_PendingSlotsClear ==
    /\ [](isSearching => (searchResult = Null /\ groundingUrls = <<>>))
    /\ [][(last'.op = "handleSearch" /\ last'.id > 0)
            => (isSearching' /\ searchResult' = Null /\ groundingUrls' = <<>>)]_vars
    /\ [][((searchResult' # searchResult /\ searchResult' # Null)
              \/ (groundingUrls' # groundingUrls /\ groundingUrls' # <<>>))
            => (last'.op \in SettleOps /\ ~isSearching')]_vars

\* C22 happens: a second query is pending after the first one completed,
\* and HOME was clicked meanwhile
C22_Witness ==
    /\ isSearching
    /\ issued = 2
    /\ inflight = {2}
    /\ last.op = "HomeClick"
    /\ latestOutcome = NoOutcome

====
